---- MODULE Spec2Model ----
(***************************************************************************)
(* Model of train_ocr.py: the hydra entry point `main`, which seeds the    *)
(* run, builds the model, the transform pipelines, the data module, the    *)
(* experiment directories, the training wrapper, the callbacks, the logger *)
(* and the trainer, and then calls trainer.fit.                            *)
(*                                                                         *)
(* main is straight-line code without any try/except: each statement is    *)
(* one action, every call into a library can raise, and an exception ends  *)
(* the process.  The inputs of a run (the composed config, the directories *)
(* already on disk, whether CUDA is available, the list returned by        *)
(* get_ocr_valid_transform_list) are chosen in Init.                       *)
(***************************************************************************)
EXTENDS Integers, Sequences, FiniteSets

VARIABLES
    pc,                 \* position in the process: a statement of main, "fitting", "done", "failed"
    trace,              \* the statements of main completed so far, in order
    train_config,       \* the composed config: [bad, kind, val_check_interval]
    valid_list,         \* what get_ocr_valid_transform_list() returns
    cuda,               \* torch.cuda.is_available()
    fs,                 \* directories that exist on disk
    ensured,            \* directories this run has mkdir'ed
    cwd,                \* working directory
    seeded,             \* number of pl.seed_everything calls
    built,              \* objects constructed so far
    train_tranaforms,   \* step sequence of the training pipeline
    valid_trasnforms,   \* step sequence of the validation pipeline
    target_metric_name, \* local of main, line 71
    train_module,       \* OCRDetectorTrainer: [target_metric]
    checkpoint_callback,\* ModelCheckpoint as configured
    gpus,               \* local of main, line 95
    warnings,           \* number of warnings.warn calls
    trainer,            \* pl.Trainer as configured
    fit_calls,          \* number of trainer.fit calls
    global_step,        \* training steps done inside fit
    saved,              \* checkpoints the callback has saved: set of <<step, value>>
    topk,               \* retained best checkpoints: set of <<step, value>>
    last,               \* step of last.ckpt, 0 when there is none
    err,                \* the statement whose exception ended main, or "none"
    exit                \* process exit status: "none" while running, "zero", "nonzero"

vars == <<pc, trace, train_config, valid_list, cuda, fs, ensured, cwd, seeded,
          built, train_tranaforms, valid_trasnforms, target_metric_name,
          train_module, checkpoint_callback, gpus, warnings, trainer,
          fit_calls, global_step, saved, topk, last, err, exit>>

\* ---------------------------------------------------------------- bounds

MaxInterval == 2    \* train_config.val_check_interval ranges over 1..MaxInterval
MaxSteps == 6       \* training steps a fit call runs at most
MaxMetric == 2      \* the monitored metric takes the values 0..MaxMetric
MaxValidLen == 2    \* length of the list get_ocr_valid_transform_list returns

\* ------------------------------------------------------------ the config

\* The fields of TrainConfig that main reads.
Fields == {"seed", "ocr", "train_size", "num_workers", "exp_dir", "optimizer",
           "scheduler", "val_check_interval", "check_val_every_n_epoch",
           "flush_logs_every_n_steps", "fast_dev_run", "precision", "max_epochs"}

\* A composed config is valid, or has one field that is missing or mistyped.
Configs ==
    [bad : {"none"}, kind : {"none"}, val_check_interval : 1..MaxInterval]
    \cup [bad : Fields, kind : {"missing", "mistyped"}, val_check_interval : 1..MaxInterval]

ConfigValid == train_config.kind = "none"

\* The config fields each statement of main reads (train_config.<field>).
FieldsRead(step) ==
    CASE step = "seed_everything" -> {"seed"}
      [] step = "data_module" -> {"ocr", "seed", "train_size", "num_workers"}
      [] step = "mkdir_checkpoint" -> {"exp_dir"}
      [] step = "train_module" -> {"optimizer", "scheduler"}
      [] step = "checkpoint_callback" -> {"val_check_interval"}
      [] step = "trainer" -> {"check_val_every_n_epoch", "flush_logs_every_n_steps",
                              "fast_dev_run", "precision", "max_epochs",
                              "val_check_interval"}
      [] OTHER -> {}

\* A missing field ("???") of a structured config raises when it is read.
Readable(step) ==
    ~(train_config.kind = "missing" /\ train_config.bad \in FieldsRead(step))


\* ------------------------------------------------------ transform builder

\* aug_transforms of get_train_transform, in source order.
aug_transforms ==
    <<"OneOf(Perspective,Affine)", "ColorJitter", "ISONoise", "MotionBlur",
      "RandomShadow", "RandomSunFlare">>

\* The canonical preprocessing steps get_ocr_valid_transform_list draws from.
CanonSteps == {"Resize", "Normalize"}

\* The lists get_ocr_valid_transform_list() can return.
ValidLists == UNION {[1..n -> CanonSteps] : n \in 0..MaxValidLen}

\* AugTransform(A.Compose(aug_transforms + get_ocr_valid_transform_list()))
get_train_transform(vl) == aug_transforms \o vl


\* Mutant: the validation pipeline is composed like the training one.
get_valid_transform_augmented(vl) == aug_transforms \o vl

\* AugTransform(A.Compose(get_ocr_valid_transform_list()))
get_valid_transform(vl) == vl

Range(s) == {s[i] : i \in 1..Len(s)}

\* ------------------------------------------------------------- filesystem

Dirs == {"exp_dir", "checkpoint", "logs"}

\* Directory states a run can start from: a subdirectory implies exp_dir.
InitialFs == {d \in SUBSET Dirs : d # {} => "exp_dir" \in d}


\* Mutant: the directory is never created.
mkdir_skipped(dirs, p) == dirs

\* Path.mkdir(exist_ok=True, parents=True) of exp_dir / p.
mkdir(dirs, p) == dirs \cup {"exp_dir", p}

\* --------------------------------------------------------- checkpointing

\* f"{{step}}-{{{target_metric_name}:.4f}}" as tokens: "{step}-{<name>:.4f}".
Filename(name) == <<"{", "step", "}", "-", "{", name, ":.4f", "}">>

\* The keys a filename template formats: the token after each "{".
TemplateKeys(t) ==
    LET RECURSIVE keys(_)
        keys(i) == IF i >= Len(t) THEN <<>>
                   ELSE IF t[i] = "{" THEN <<t[i + 1]>> \o keys(i + 1)
                   ELSE keys(i + 1)
    IN keys(1)

NoCheckpoint ==
    [monitor |-> "unset", dirpath |-> "unset", filename |-> <<>>,
     save_last |-> FALSE, every_n_train_steps |-> 0, save_top_k |-> 0,
     mode |-> "unset", save_weights_only |-> FALSE]


\* Mutant: the save cadence is the validation interval itself.
ModelCheckpoint_cadence(name, interval) ==
    [monitor |-> name, dirpath |-> "checkpoint", filename |-> Filename(name),
     save_last |-> TRUE, every_n_train_steps |-> interval, save_top_k |-> 2,
     mode |-> "max", save_weights_only |-> FALSE]

\* Mutant: the callback monitors a metric name other than the wrapper's.
ModelCheckpoint_monitor(name, interval) ==
    [monitor |-> "val_acc", dirpath |-> "checkpoint", filename |-> Filename(name),
     save_last |-> TRUE, every_n_train_steps |-> interval + 1, save_top_k |-> 2,
     mode |-> "max", save_weights_only |-> FALSE]

\* callbacks.ModelCheckpoint(...) as main configures it.
ModelCheckpoint(name, interval) ==
    [monitor |-> name, dirpath |-> "checkpoint", filename |-> Filename(name),
     save_last |-> TRUE, every_n_train_steps |-> interval + 1, save_top_k |-> 2,
     mode |-> "max", save_weights_only |-> FALSE]

\* The worst retained checkpoint under `mode`; the oldest among equals.
Worst(tk, mode) ==
    CHOOSE w \in tk : \A x \in tk :
        \/ (IF mode = "max" THEN w[2] < x[2] ELSE w[2] > x[2])
        \/ (w[2] = x[2] /\ w[1] <= x[1])

\* Top-k retention: a new checkpoint is kept while fewer than k are, or when it
\* beats the worst one, which it then replaces.
UpdateTopK(tk, k, mode, s, v) ==
    IF Cardinality(tk) < k THEN tk \cup {<<s, v>>}
    ELSE IF k = 0 THEN tk
    ELSE LET w == Worst(tk, mode)
         IN IF (IF mode = "max" THEN v > w[2] ELSE v < w[2])
            THEN (tk \ {w}) \cup {<<s, v>>}
            ELSE tk

\* Checkpoint files on disk: the retained best ones and last.ckpt.
Retained == Cardinality(topk) + (IF last > 0 THEN 1 ELSE 0)

\* ------------------------------------------------------ device selection


\* Mutant: the accelerators are requested whether or not there are any.
SelectGpus_always(available) == "-1"

\* gpus = -1 if torch.cuda.is_available() else None
SelectGpus(available) == IF available THEN "-1" ELSE "None"

\* if gpus is None: warnings.warn(...)
DeviceWarnings(g) == IF g = "None" THEN 1 ELSE 0

NoTrainer == [gpus |-> "unset", val_check_interval |-> 0, callbacks |-> <<>>,
              logger |-> "unset", default_root_dir |-> "unset"]

\* ------------------------------------------------------------ statements


\* Mutant: the seed is set after the model has been built.
Order_seed_late ==
    <<"chdir", "get_model", "seed_everything", "get_train_transform",
      "get_valid_transform", "data_module", "mkdir_checkpoint", "metric_name",
      "train_module", "checkpoint_callback", "lr_monitor", "mkdir_logs",
      "logger", "select_device", "trainer", "fit">>

\* Mutant: the checkpoint directory is created after the training wrapper.
Order_mkdir_late ==
    <<"chdir", "seed_everything", "get_model", "get_train_transform",
      "get_valid_transform", "data_module", "metric_name", "train_module",
      "mkdir_checkpoint", "checkpoint_callback", "lr_monitor", "mkdir_logs",
      "logger", "select_device", "trainer", "fit">>

\* The statements of main, in source order.
Order ==
    <<"chdir", "seed_everything", "get_model", "get_train_transform",
      "get_valid_transform", "data_module", "mkdir_checkpoint", "metric_name",
      "train_module", "checkpoint_callback", "lr_monitor", "mkdir_logs",
      "logger", "select_device", "trainer", "fit">>

Index(step) == CHOOSE i \in 1..Len(Order) : Order[i] = step

After(step) == Order[Index(step) + 1]

\* Statements that call into a library or the operating system, or read the
\* config, and so can raise.  Lines 71 and 95-98 cannot.
CanRaise == Range(Order) \ {"metric_name", "select_device", "fit"}


\* Mutant: an exception is caught and the process ends as if it had succeeded.
OnRaise_swallowed(step) == [pc |-> "done", err |-> "none", exit |-> "zero"]

\* An exception raised in main: nothing catches it, hydra reports it and the
\* process exits with a non-zero status.
OnRaise(step) == [pc |-> "failed", err |-> step, exit |-> "nonzero"]


\* ------------------------------------------------------------------ state

inputs == <<train_config, valid_list, cuda>>
fitvars == <<fit_calls, global_step, saved, topk, last>>

Init ==
    /\ pc = "hydra"
    /\ trace = <<>>
    /\ train_config \in Configs
    /\ valid_list \in ValidLists
    /\ cuda \in BOOLEAN
    /\ fs \in InitialFs
    /\ ensured = {}
    /\ cwd = "hydra_run_dir"
    /\ seeded = 0
    /\ built = {}
    /\ train_tranaforms = <<>>
    /\ valid_trasnforms = <<>>
    /\ target_metric_name = "unset"
    /\ train_module = [target_metric |-> "unset"]
    /\ checkpoint_callback = NoCheckpoint
    /\ gpus = "unset"
    /\ warnings = 0
    /\ trainer = NoTrainer
    /\ fit_calls = 0
    /\ global_step = 0
    /\ saved = {}
    /\ topk = {}
    /\ last = 0
    /\ err = "none"
    /\ exit = "none"

\* A statement of main completes and control moves to the next one.
Advance(step) ==
    /\ pc = step
    /\ Readable(step)
    /\ pc' = After(step)
    /\ trace' = Append(trace, step)
    /\ UNCHANGED <<inputs, fitvars, err, exit>>

\* ---------------------------------------------------------------- actions

\* @hydra.main: composing the config against the TrainConfig schema rejects a
\* mistyped value before main is called.
HydraReject ==
    /\ pc = "hydra"
    /\ train_config.kind = "mistyped"
    /\ pc' = OnRaise("config").pc
    /\ err' = OnRaise("config").err
    /\ exit' = OnRaise("config").exit
    /\ UNCHANGED <<trace, inputs, fitvars, fs, ensured, cwd, seeded, built,
                   train_tranaforms, valid_trasnforms, target_metric_name,
                   train_module, checkpoint_callback, gpus, warnings, trainer>>

\* @hydra.main: the composed config is handed to main.
HydraRun ==
    /\ pc = "hydra"
    /\ train_config.kind # "mistyped"
    /\ pc' = Order[1]
    /\ UNCHANGED <<trace, inputs, fitvars, fs, ensured, cwd, seeded, built,
                   train_tranaforms, valid_trasnforms, target_metric_name,
                   train_module, checkpoint_callback, gpus, warnings, trainer,
                   err, exit>>

\* os.chdir(hydra.utils.get_original_cwd())
Chdir ==
    /\ Advance("chdir")
    /\ cwd' = "original_cwd"
    /\ UNCHANGED <<fs, ensured, seeded, built, train_tranaforms, valid_trasnforms,
                   target_metric_name, train_module, checkpoint_callback, gpus,
                   warnings, trainer>>

\* pl.seed_everything(train_config.seed)
SeedEverything ==
    /\ Advance("seed_everything")
    /\ seeded' = seeded + 1
    /\ UNCHANGED <<fs, ensured, cwd, built, train_tranaforms, valid_trasnforms,
                   target_metric_name, train_module, checkpoint_callback, gpus,
                   warnings, trainer>>

\* model = get_model()
GetModel ==
    /\ Advance("get_model")
    /\ built' = built \cup {"model"}
    /\ UNCHANGED <<fs, ensured, cwd, seeded, train_tranaforms, valid_trasnforms,
                   target_metric_name, train_module, checkpoint_callback, gpus,
                   warnings, trainer>>

\* train_tranaforms = get_train_transform()
GetTrainTransform ==
    /\ Advance("get_train_transform")
    /\ train_tranaforms' = get_train_transform(valid_list)
    /\ built' = built \cup {"train_tranaforms"}
    /\ UNCHANGED <<fs, ensured, cwd, seeded, valid_trasnforms,
                   target_metric_name, train_module, checkpoint_callback, gpus,
                   warnings, trainer>>

\* valid_trasnforms = get_valid_transform()
GetValidTransform ==
    /\ Advance("get_valid_transform")
    /\ valid_trasnforms' = get_valid_transform(valid_list)
    /\ built' = built \cup {"valid_trasnforms"}
    /\ UNCHANGED <<fs, ensured, cwd, seeded, train_tranaforms,
                   target_metric_name, train_module, checkpoint_callback, gpus,
                   warnings, trainer>>

\* data = OCRDetectionDataModule(...)
DataModule ==
    /\ Advance("data_module")
    /\ built' = built \cup {"data"}
    /\ UNCHANGED <<fs, ensured, cwd, seeded, train_tranaforms, valid_trasnforms,
                   target_metric_name, train_module, checkpoint_callback, gpus,
                   warnings, trainer>>

\* checkpoint_dir = exp_dir / "checkpoint"; checkpoint_dir.mkdir(...)
MkdirCheckpoint ==
    /\ Advance("mkdir_checkpoint")
    /\ fs' = mkdir(fs, "checkpoint")
    /\ ensured' = ensured \cup {"checkpoint"}
    /\ UNCHANGED <<cwd, seeded, built, train_tranaforms, valid_trasnforms,
                   target_metric_name, train_module, checkpoint_callback, gpus,
                   warnings, trainer>>

\* target_metric_name = "12"
MetricName ==
    /\ Advance("metric_name")
    /\ target_metric_name' = "12"
    /\ UNCHANGED <<fs, ensured, cwd, seeded, built, train_tranaforms,
                   valid_trasnforms, train_module, checkpoint_callback, gpus,
                   warnings, trainer>>

\* train_module = OCRDetectorTrainer(..., target_metric=target_metric_name)
TrainModule ==
    /\ Advance("train_module")
    /\ train_module' = [target_metric |-> target_metric_name]
    /\ built' = built \cup {"train_module"}
    /\ UNCHANGED <<fs, ensured, cwd, seeded, train_tranaforms, valid_trasnforms,
                   target_metric_name, checkpoint_callback, gpus, warnings, trainer>>

\* checkpoint_callback = callbacks.ModelCheckpoint(...)
CheckpointCallback ==
    /\ Advance("checkpoint_callback")
    /\ checkpoint_callback' =
           ModelCheckpoint(target_metric_name, train_config.val_check_interval)
    /\ built' = built \cup {"checkpoint_callback"}
    /\ UNCHANGED <<fs, ensured, cwd, seeded, train_tranaforms, valid_trasnforms,
                   target_metric_name, train_module, gpus, warnings, trainer>>

\* lr_monitor = callbacks.LearningRateMonitor(logging_interval='step')
LrMonitor ==
    /\ Advance("lr_monitor")
    /\ built' = built \cup {"lr_monitor"}
    /\ UNCHANGED <<fs, ensured, cwd, seeded, train_tranaforms, valid_trasnforms,
                   target_metric_name, train_module, checkpoint_callback, gpus,
                   warnings, trainer>>

\* log_dir = exp_dir / "logs"; log_dir.mkdir(...)
MkdirLogs ==
    /\ Advance("mkdir_logs")
    /\ fs' = mkdir(fs, "logs")
    /\ ensured' = ensured \cup {"logs"}
    /\ UNCHANGED <<cwd, seeded, built, train_tranaforms, valid_trasnforms,
                   target_metric_name, train_module, checkpoint_callback, gpus,
                   warnings, trainer>>

\* logger = TensorBoardLogger(str(log_dir))
Logger ==
    /\ Advance("logger")
    /\ built' = built \cup {"logger"}
    /\ UNCHANGED <<fs, ensured, cwd, seeded, train_tranaforms, valid_trasnforms,
                   target_metric_name, train_module, checkpoint_callback, gpus,
                   warnings, trainer>>

\* gpus = -1 if torch.cuda.is_available() else None, and the warning
SelectDevice ==
    /\ Advance("select_device")
    /\ gpus' = SelectGpus(cuda)
    /\ warnings' = warnings + DeviceWarnings(gpus')
    /\ UNCHANGED <<fs, ensured, cwd, seeded, built, train_tranaforms,
                   valid_trasnforms, target_metric_name, train_module,
                   checkpoint_callback, trainer>>

\* trainer = pl.Trainer(...)
Trainer ==
    /\ Advance("trainer")
    /\ trainer' = [gpus |-> gpus,
                   val_check_interval |-> train_config.val_check_interval,
                   callbacks |-> <<"checkpoint_callback", "lr_monitor">>,
                   logger |-> "logs", default_root_dir |-> "exp_dir"]
    /\ built' = built \cup {"trainer"}
    /\ UNCHANGED <<fs, ensured, cwd, seeded, train_tranaforms, valid_trasnforms,
                   target_metric_name, train_module, checkpoint_callback, gpus,
                   warnings>>

\* A statement of main raises: a library or system call fails, or the
\* statement reads a missing config field.
Raise ==
    /\ pc \in CanRaise
    /\ pc' = OnRaise(pc).pc
    /\ err' = OnRaise(pc).err
    /\ exit' = OnRaise(pc).exit
    /\ UNCHANGED <<trace, inputs, fitvars, fs, ensured, cwd, seeded, built,
                   train_tranaforms, valid_trasnforms, target_metric_name,
                   train_module, checkpoint_callback, gpus, warnings, trainer>>


\* ------------------------------------------------------------ trainer.fit

\* The metric keys the training wrapper logs: the wrapper is given the name of
\* the metric used for checkpoint selection and logs under it.
LoggedKeys == {train_module.target_metric}

\* The checkpoint callback acts at a training step when the trainer holds it
\* and the step is a multiple of every_n_train_steps.
SaveDue(step) ==
    /\ "checkpoint_callback" \in Range(trainer.callbacks)
    /\ checkpoint_callback.every_n_train_steps > 0
    /\ step % checkpoint_callback.every_n_train_steps = 0

\* trainer.fit(train_module, datamodule=data) is called.
FitInvoke ==
    /\ pc = "fit"
    /\ pc' = "fitting"
    /\ fit_calls' = fit_calls + 1
    /\ UNCHANGED <<trace, inputs, global_step, saved, topk, last, fs, ensured,
                   cwd, seeded, built, train_tranaforms, valid_trasnforms,
                   target_metric_name, train_module, checkpoint_callback, gpus,
                   warnings, trainer, err, exit>>

\* One training step inside fit at which no checkpoint is due.
FitStep ==
    /\ pc = "fitting"
    /\ global_step < MaxSteps
    /\ ~SaveDue(global_step + 1)
    /\ global_step' = global_step + 1
    /\ UNCHANGED <<pc, trace, inputs, fit_calls, saved, topk, last, fs, ensured,
                   cwd, seeded, built, train_tranaforms, valid_trasnforms,
                   target_metric_name, train_module, checkpoint_callback, gpus,
                   warnings, trainer, err, exit>>

\* One training step inside fit after which the checkpoint callback saves: the
\* monitored value enters the top-k retention and last.ckpt is rewritten.
FitStepSave ==
    /\ pc = "fitting"
    /\ global_step < MaxSteps
    /\ SaveDue(global_step + 1)
    /\ checkpoint_callback.monitor \in LoggedKeys
    /\ global_step' = global_step + 1
    /\ \E v \in 0..MaxMetric :
           /\ saved' = saved \cup {<<global_step', v>>}
           /\ topk' = UpdateTopK(topk, checkpoint_callback.save_top_k,
                              checkpoint_callback.mode, global_step', v)
    /\ last' = IF checkpoint_callback.save_last THEN global_step' ELSE last
    /\ UNCHANGED <<pc, trace, inputs, fit_calls, fs, ensured,
                   cwd, seeded, built, train_tranaforms, valid_trasnforms,
                   target_metric_name, train_module, checkpoint_callback, gpus,
                   warnings, trainer, err, exit>>

\* fit returns normally: main returns and the process exits 0.
FitReturn ==
    /\ pc = "fitting"
    /\ pc' = "done"
    /\ trace' = Append(trace, "fit")
    /\ exit' = "zero"
    /\ UNCHANGED <<inputs, fitvars, fs, ensured, cwd, seeded, built,
                   train_tranaforms, valid_trasnforms, target_metric_name,
                   train_module, checkpoint_callback, gpus, warnings, trainer, err>>

\* fit raises: the exception leaves main.
FitRaise ==
    /\ pc = "fitting"
    /\ pc' = OnRaise("fit").pc
    /\ err' = OnRaise("fit").err
    /\ exit' = OnRaise("fit").exit
    /\ UNCHANGED <<trace, inputs, fitvars, fs, ensured, cwd, seeded, built,
                   train_tranaforms, valid_trasnforms, target_metric_name,
                   train_module, checkpoint_callback, gpus, warnings, trainer>>

Next ==
    \/ HydraReject
    \/ HydraRun
    \/ Chdir
    \/ SeedEverything
    \/ GetModel
    \/ GetTrainTransform
    \/ GetValidTransform
    \/ DataModule
    \/ MkdirCheckpoint
    \/ MetricName
    \/ TrainModule
    \/ CheckpointCallback
    \/ LrMonitor
    \/ MkdirLogs
    \/ Logger
    \/ SelectDevice
    \/ Trainer
    \/ Raise
    \/ FitInvoke
    \/ FitStep
    \/ FitStepSave
    \/ FitReturn
    \/ FitRaise

Spec == Init /\ [][Next]_vars


\* ----------------------------------------------------------------- claims

Done(step) == step \in Range(trace)

FitInvoked == pc = "fit" \/ fit_calls > 0

\* s is a strict suffix of t.
IsStrictSuffix(s, t) ==
    /\ Len(s) < Len(t)
    /\ SubSeq(t, Len(t) - Len(s) + 1, Len(t)) = s

\* C1: from the point where trainer.fit is invoked on, both <exp_dir>/checkpoint
\* and <exp_dir>/logs exist, whether fit is still running, has returned or has
\* raised.
C1_DirsExistFromFit ==
    FitInvoked => {"exp_dir", "checkpoint", "logs"} \subseteq fs

\* fit has raised and the directories this run created are still there.
C1_Witness ==
    /\ pc = "failed" /\ err = "fit"
    /\ ensured = {"checkpoint", "logs"}
    /\ {"checkpoint", "logs"} \subseteq fs

\* C2: once both pipelines are built, the validation steps are a strict suffix
\* of the training steps, training = augmentations ++ validation with a
\* non-empty augmentation prefix, and no augmentation step is a validation step.
C2_ValidIsStrictSuffix ==
    ("train_tranaforms" \in built /\ "valid_trasnforms" \in built) =>
        /\ IsStrictSuffix(valid_trasnforms, train_tranaforms)
        /\ Len(train_tranaforms) = Len(aug_transforms) + Len(valid_trasnforms)
        /\ SubSeq(train_tranaforms, 1, Len(aug_transforms)) = aug_transforms
        /\ Len(aug_transforms) > 0
        /\ Range(valid_trasnforms) \cap Range(aug_transforms) = {}

\* Both pipelines are built from a list of two preprocessing steps.
C2_Witness ==
    /\ "train_tranaforms" \in built /\ "valid_trasnforms" \in built
    /\ Len(valid_trasnforms) = 2
    /\ Len(train_tranaforms) = 8

\* C3: without CUDA, device selection never aborts the run: it sets gpus to
\* None and warns exactly once, no warning is issued before or after it, control
\* goes on to the trainer construction, and the trainer is built with gpus = None;
\* from there only the trainer construction or fit itself can end the run.
C3_FallbackDevice ==
    ~cuda =>
        /\ err # "select_device"
        /\ warnings = (IF Done("select_device") THEN 1 ELSE 0)
        /\ (Done("select_device") => gpus = "None")
        /\ (Done("select_device") => pc \in {"trainer", "fit", "fitting", "done", "failed"})
        /\ (Done("select_device") /\ pc = "failed" => err \in {"trainer", "fit"})
        /\ ("trainer" \in built => trainer.gpus = "None")
        /\ (FitInvoked => "trainer" \in built)

\* A run without CUDA that warned once, called fit and exited 0.
C3_Witness ==
    /\ ~cuda /\ pc = "done" /\ exit = "zero"
    /\ fit_calls = 1 /\ warnings = 1 /\ trainer.gpus = "None"

\* C4: whenever the config has a missing or mistyped field, no heavyweight
\* object has been constructed and no experiment directory has been created.
C4_InvalidConfigBuildsNothing ==
    ~ConfigValid => (built = {} /\ ensured = {})

\* C6: the process exits 0 exactly when every statement of main, fit included,
\* has completed without raising; an exception ends the process at once with a
\* non-zero status and is the exception of the statement that raised; fit is
\* called at most once.
C6_ExitReflectsFit ==
    /\ (exit = "zero") <=> (pc = "done")
    /\ (pc = "done") => (err = "none" /\ trace = Order /\ fit_calls = 1)
    /\ (exit = "nonzero") <=> (pc = "failed")
    /\ (pc = "failed") <=> (err # "none")
    /\ (err \notin {"none", "config", "fit"}) =>
           (err \in CanRaise /\ ~Done(err) /\ Len(trace) = Index(err) - 1)
    /\ (err = "config") => (trace = <<>> /\ train_config.kind = "mistyped")
    /\ (err = "fit") => (fit_calls = 1 /\ ~Done("fit"))
    /\ fit_calls <= 1

\* fit raised, once, and the process ended with a non-zero status.
C6_Witness ==
    pc = "failed" /\ err = "fit" /\ exit = "nonzero" /\ fit_calls = 1

Consumers == {"model", "train_tranaforms", "valid_trasnforms", "data",
              "train_module", "trainer"}

\* C7: pl.seed_everything is never called more than once, it has been called
\* exactly once as soon as the model, a transform pipeline, the data module, the
\* training wrapper or the trainer exists, and a run that completes has called it.
C7_SeedOnceBeforeConsumers ==
    /\ seeded <= 1
    /\ (seeded = 1) <=> Done("seed_everything")
    /\ (built \cap Consumers # {}) => seeded = 1
    /\ (pc = "get_model") => seeded = 1
    /\ (pc = "done") => seeded = 1

\* The model is about to be built and the seed has been set.
C7_Witness == pc = "get_model" /\ seeded = 1 /\ built = {}

WrapperOrCallback == {"train_module", "checkpoint_callback", "lr_monitor"}

\* C8 as stated: when the training wrapper or a callback is built, or fails to
\* build, both checkpoint/ and logs/ have already been created.
C8_TreeBeforeWrapper ==
    (built \cap WrapperOrCallback # {} \/ err \in WrapperOrCallback) =>
        ensured = {"checkpoint", "logs"}

\* The order in which main executes its statements.
C8_CodeOrder ==
    <<"chdir", "seed_everything", "get_model", "get_train_transform",
      "get_valid_transform", "data_module", "mkdir_checkpoint", "metric_name",
      "train_module", "checkpoint_callback", "lr_monitor", "mkdir_logs",
      "logger", "select_device", "trainer", "fit">>

\* C8 amended: main executes its statements in source order; checkpoint/ is
\* created before the training wrapper and the callbacks are built, logs/ only
\* after them and before the logger and the trainer; a failure while building
\* the wrapper or a callback leaves checkpoint/ created and logs/ not.
C8_CheckpointDirBeforeWrapper ==
    /\ trace = SubSeq(C8_CodeOrder, 1, Len(trace))
    /\ (built \cap WrapperOrCallback # {} \/ err \in WrapperOrCallback) =>
           "checkpoint" \in ensured
    /\ ("logs" \in ensured) => (WrapperOrCallback \subseteq built)
    /\ ("logger" \in built \/ "trainer" \in built \/ FitInvoked) =>
           ensured = {"checkpoint", "logs"}
    /\ (err \in WrapperOrCallback) => ensured = {"checkpoint"}

\* Building the training wrapper failed with checkpoint/ created and logs/ absent.
C8_Witness ==
    /\ pc = "failed" /\ err = "train_module"
    /\ ensured = {"checkpoint"}
    /\ "checkpoint" \in fs /\ "logs" \notin fs

\* C9: the checkpoint callback saves every val_check_interval + 1 training
\* steps, keeps the top 2 by maximum monitored value and the last checkpoint,
\* and saves the full training state; the trainer holds that callback, so saves
\* happen only at multiples of val_check_interval + 1, the retained best
\* checkpoints are the 2 largest saved, and at most 3 checkpoints are retained.
C9_CheckpointPolicy ==
    /\ ("checkpoint_callback" \in built) =>
           /\ checkpoint_callback.every_n_train_steps = train_config.val_check_interval + 1
           /\ checkpoint_callback.save_top_k = 2
           /\ checkpoint_callback.mode = "max"
           /\ checkpoint_callback.save_last
           /\ ~checkpoint_callback.save_weights_only
    /\ ("trainer" \in built) =>
           /\ "checkpoint_callback" \in Range(trainer.callbacks)
           /\ trainer.val_check_interval = train_config.val_check_interval
    /\ \A c \in saved :
           /\ c[1] % (train_config.val_check_interval + 1) = 0
           /\ c[1] <= last
    /\ \A n \in 1..global_step :
           (n % (train_config.val_check_interval + 1) = 0) => (\E c \in saved : c[1] = n)
    /\ topk \subseteq saved
    /\ Cardinality(topk) <= 2
    /\ Cardinality(topk) = (IF Cardinality(saved) < 2 THEN Cardinality(saved) ELSE 2)
    /\ \A c \in saved \ topk : \A k \in topk : c[2] <= k[2]
    /\ Retained <= 3

\* Three checkpoints were saved, one of them was dropped from the best two, and
\* three files (two best and last.ckpt) are retained.
C9_Witness ==
    /\ Cardinality(saved) = 3
    /\ Cardinality(topk) = 2
    /\ Retained = 3
    /\ \E c \in saved \ topk : \E k \in topk : c[2] < k[2] /\ c[1] < k[1]

\* C10: the metric name held by the training wrapper, the name the checkpoint
\* callback monitors and the name in the checkpoint filename template are all
\* the value of target_metric_name, which is "12" from before the wrapper is
\* built until fit is invoked and after.
C10_OneMetricName ==
    /\ (built \cap {"train_module", "checkpoint_callback"} # {} \/ FitInvoked) =>
           target_metric_name = "12"
    /\ ("train_module" \in built) => train_module.target_metric = target_metric_name
    /\ ("checkpoint_callback" \in built) =>
           /\ checkpoint_callback.monitor = target_metric_name
           /\ TemplateKeys(checkpoint_callback.filename) = <<"step", target_metric_name>>
    /\ FitInvoked => checkpoint_callback.monitor \in LoggedKeys

\* fit was invoked with the wrapper and the callback holding the same name.
C10_Witness ==
    /\ fit_calls = 1
    /\ train_module.target_metric = "12"
    /\ checkpoint_callback.monitor = "12"
    /\ TemplateKeys(checkpoint_callback.filename)[2] = "12"

====
